---- MODULE Spec2Model ----
(***************************************************************************)
(* Model of packages/preview/src/browser/preview-handler.ts:               *)
(*   - RenderContentParams.is, the presence check on render parameters;    *)
(*   - PreviewHandlerProvider.findContribution / canHandle, the ranking    *)
(*     of the contributed PreviewHandlers for a resource.                  *)
(*                                                                         *)
(* A query of the provider is synchronous.  It is modelled as a run of     *)
(* steps, one per call-out to a contributed handler's canHandle(uri) (the  *)
(* callback `contrib => contrib.canHandle(uri)`), because what a handler   *)
(* answers is an input of the query.  While a query runs (pc = "scoring")  *)
(* no other operation is enabled, so the states with pc = "idle" are the   *)
(* states between whole operations.                                        *)
(*                                                                         *)
(* Prioritizeable.prioritizeAllSync (@theia/core) is not part of the       *)
(* sources at hand; toPrioritizeableSync, isValid, compare, sort and       *)
(* prioritizeAllSync below follow the registry algorithm and the failure   *)
(* semantics of the specification (sections 4.2 and 7).                    *)
(***************************************************************************)
EXTENDS Integers, Sequences, FiniteSets, TLC

\* ---------------------------------------------------------------- bounds
MaxHandlers == 3      \* longest contribution sequence explored
MaxScore == 2         \* largest score a handler answers
MinScore == 1         \* scores range over -MinScore .. MaxScore

\* ------------------------------------------------------------ value sets
Handlers == {"X", "Y", "Z"}
URIs == {"R1", "R2"}
None == "none"

\* What one call of PreviewHandler.canHandle(uri) can produce: a number, a
\* non-numeric value (NaN, undefined), or an exception.
Num(n) == [kind |-> "number", n |-> n]
NaN == [kind |-> "NaN", n |-> 0]
Undefined == [kind |-> "undefined", n |-> 0]
Throws == [kind |-> "throw", n |-> 0]
Answers == {Num(n) : n \in (0 - MinScore)..MaxScore} \cup {NaN, Undefined, Throws}

\* Sequences over S of length at most n.
SeqUpTo(S, n) == UNION {[1..k -> S] : k \in 0..n}

\* ------------------------------------------------- RenderContentParams
\* The argument of RenderContentParams.is: undefined, or an object, given
\* by its own keys and their values (a key can be present and hold
\* undefined).
Keys == {"content", "originUri"}
UndefinedParams == [kind |-> "undefined", keys |-> {}, undef |-> {}]
ObjectParams ==
    {[kind |-> "object", keys |-> ks, undef |-> us] :
        ks \in SUBSET Keys, us \in SUBSET Keys}
ParamValues == {UndefinedParams} \cup {p \in ObjectParams : p.undef \subseteq p.keys}
NoParams == [kind |-> "none", keys |-> {}, undef |-> {}]

\* A slip of is: the two key tests joined by || instead of &&.
is_either(params) ==
    /\ params.kind = "object"
    /\ ("content" \in params.keys \/ "originUri" \in params.keys)

\* !!params && 'content' in params && 'originUri' in params
is(params) ==
    /\ params.kind = "object"
    /\ "content" \in params.keys
    /\ "originUri" \in params.keys

\* ------------------------------------------------------ program state
VARIABLES
    contributions,   \* previewHandlerContributions.getContributions()
    pc,              \* "idle", or "scoring" while a query calls the handlers
    op,              \* the operation running or last completed
    uri,             \* the resource of that query
    prioritizeable,  \* the {value, priority} pairs collected so far
    found,           \* what findContribution returned
    threw,           \* whether the query raised instead of returning
    can,             \* what the provider's canHandle returned
    params,          \* the argument of the last RenderContentParams.is
    valid,           \* what RenderContentParams.is returned
    rendered         \* the handler whose renderContent was invoked last

vars == <<contributions, pc, op, uri, prioritizeable, found, threw, can,
          params, valid, rendered>>

\* ------------------------------------------------------ Prioritizeable
\* One {value, priority} pair of toPrioritizeableSync; a handler whose
\* canHandle raised keeps the marker Throws as its priority.
Pair(v, a) == [value |-> v, priority |-> a]

\* isValid: priority > 0.  NaN > 0 and undefined > 0 are false; a handler
\* that raised is non-applicable.
isValid(p) == p.priority.kind = "number" /\ p.priority.n > 0

\* compare: p2.priority - p.priority (larger priorities first).
compare(p, p2) == p2.priority.n - p.priority.n

\* Insertion of x into the sorted s behind every element that does not
\* have to follow it: the step of a stable sort.
Insert(s, x) ==
    LET k == Cardinality({i \in 1..Len(s) : compare(s[i], x) <= 0})
    IN  SubSeq(s, 1, k) \o <<x>> \o SubSeq(s, k + 1, Len(s))

RECURSIVE sort(_)
sort(s) ==
    IF s = <<>> THEN <<>>
    ELSE Insert(sort(SubSeq(s, 1, Len(s) - 1)), s[Len(s)])

\* toPrioritizeableSync, one element of its map: the pair of the value v
\* and of what getPriority(v) produced.
toPrioritizeableSync(ps, v, a) == Append(ps, Pair(v, a))

\* prioritizeable.filter(isValid).sort(compare)
prioritizeAllSync(ps) == sort(SelectSeq(ps, isValid))

Values(ps) == [i \in 1..Len(ps) |-> ps[i].value]

Reverse(s) == [i \in 1..Len(s) |-> s[Len(s) + 1 - i]]

\* ------------------------------------------- PreviewHandlerProvider
\* Slips of findContribution, each the change a plausible bug would make.
\* The contributions are mapped without being prioritized.
findContribution_unfiltered(ps) == [threw |-> FALSE, value |-> Values(ps)]

\* Equal priorities come out in reverse registration order (an unstable
\* sort).
findContribution_unstable(ps) ==
    [threw |-> FALSE,
     value |-> Values(sort(Reverse(SelectSeq(ps, isValid))))]

\* A handler's exception leaves findContribution.
findContribution_propagates(ps) ==
    [threw |-> \E i \in 1..Len(ps) : ps[i].priority.kind = "throw",
     value |-> Values(prioritizeAllSync(ps))]

\* Validity tested as !(priority <= 0): a non-numeric priority passes.
findContribution_nonNumeric(ps) ==
    [threw |-> FALSE,
     value |-> Values(prioritizeAllSync(ps)) \o
               Values(SelectSeq(ps, LAMBDA p : p.priority.kind \in {"NaN", "undefined"}))]

\* The handler chosen for the previous render is remembered and returned
\* without regard to the scores of this query.
findContribution_sticky(ps) ==
    [threw |-> FALSE,
     value |-> IF rendered # None THEN <<rendered>>
               ELSE Values(prioritizeAllSync(ps))]

\* Only the best handler is returned.
findContribution_first(ps) ==
    [threw |-> FALSE,
     value |-> LET all == Values(prioritizeAllSync(ps))
               IN  IF all = <<>> THEN <<>> ELSE <<all[1]>>]

\* findContribution, given the pairs its callback collected from the
\* contributions: prioritized.map(c => c.value).  The result says whether
\* the call raised and, if not, the list returned.
findContribution(ps) ==
    LET prioritized == prioritizeAllSync(ps)
    IN  [threw |-> FALSE,
         value |-> [i \in 1..Len(prioritized) |-> prioritized[i].value]]

\* A slip of canHandle: >= 0 instead of > 0.
canHandle_nonNegative(ps) == Len(findContribution(ps).value) >= 0

\* canHandle: this.findContribution(uri).length > 0
canHandle(ps) == Len(findContribution(ps).value) > 0

\* --------------------------------------------------------------- Init
Init ==
    /\ contributions \in SeqUpTo(Handlers, MaxHandlers)
    /\ pc = "idle"
    /\ op = None
    /\ uri = None
    /\ prioritizeable = <<>>
    /\ found = <<>>
    /\ threw = FALSE
    /\ can = FALSE
    /\ params = NoParams
    /\ valid = FALSE
    /\ rendered = None

\* ------------------------------------------------------------ actions
\* A caller enters findContribution(u) or canHandle(u).
Enter(o, u) ==
    /\ pc = "idle"
    /\ pc' = "scoring"
    /\ op' = o
    /\ uri' = u
    /\ prioritizeable' = <<>>
    /\ found' = <<>>
    /\ threw' = FALSE
    /\ can' = FALSE
    /\ params' = NoParams
    /\ valid' = FALSE
    /\ UNCHANGED <<contributions, rendered>>

FindContribution(u) == Enter("findContribution", u)

CanHandle(u) == Enter("canHandle", u)

\* The callback contrib => contrib.canHandle(uri) on the next contribution:
\* the handler answers a; within one query a handler answers one resource
\* the same way each time it is asked.
CallHandler(a) ==
    /\ pc = "scoring"
    /\ Len(prioritizeable) < Len(contributions)
    /\ LET h == contributions[Len(prioritizeable) + 1]
       IN  /\ \A i \in 1..Len(prioritizeable) :
                 prioritizeable[i].value = h => prioritizeable[i].priority = a
           /\ prioritizeable' = toPrioritizeableSync(prioritizeable, h, a)
    /\ UNCHANGED <<contributions, pc, op, uri, found, threw, can, params,
                   valid, rendered>>

\* A slip of Return: the ranking is sorted into the contribution array
\* itself.
Return_inPlace ==
    /\ pc = "scoring"
    /\ Len(prioritizeable) = Len(contributions)
    /\ LET r == findContribution(prioritizeable)
       IN  /\ threw' = r.threw
           /\ found' = r.value
           /\ contributions' = r.value
           /\ can' = (op = "canHandle" /\ canHandle(prioritizeable))
    /\ pc' = "idle"
    /\ UNCHANGED <<op, uri, prioritizeable, params, valid, rendered>>

\* Every contribution has answered: filter, sort, map and return.
Return ==
    /\ pc = "scoring"
    /\ Len(prioritizeable) = Len(contributions)
    /\ LET r == findContribution(prioritizeable)
       IN  /\ threw' = r.threw
           /\ found' = IF r.threw THEN <<>> ELSE r.value
           /\ can' = IF op = "canHandle" /\ ~r.threw
                     THEN canHandle(prioritizeable) ELSE FALSE
    /\ pc' = "idle"
    /\ UNCHANGED <<contributions, op, uri, prioritizeable, params, valid,
                   rendered>>

\* RenderContentParams.is(p)
Is(p) ==
    /\ pc = "idle"
    /\ op' = "is"
    /\ params' = p
    /\ valid' = is(p)
    /\ uri' = None
    /\ prioritizeable' = <<>>
    /\ found' = <<>>
    /\ threw' = FALSE
    /\ can' = FALSE
    /\ UNCHANGED <<contributions, pc, rendered>>

\* The caller of the provider: it takes the top-ranked handler of the list
\* findContribution returned and invokes renderContent with parameters
\* that passed the presence check.
RenderContent(p) ==
    /\ pc = "idle"
    /\ op = "findContribution"
    /\ ~threw
    /\ found # <<>>
    /\ is(p)
    /\ rendered' = found[1]
    /\ op' = "renderContent"
    /\ params' = p
    /\ valid' = TRUE
    /\ uri' = None
    /\ prioritizeable' = <<>>
    /\ found' = <<>>
    /\ threw' = FALSE
    /\ can' = FALSE
    /\ UNCHANGED <<contributions, pc>>

Next ==
    \/ \E u \in URIs : FindContribution(u)
    \/ \E u \in URIs : CanHandle(u)
    \/ \E a \in Answers : CallHandler(a)
    \/ Return
    \/ \E p \in ParamValues : Is(p)
    \/ \E p \in ParamValues : RenderContent(p)

Spec == Init /\ [][Next]_vars

\* ========================================================= properties
\* A query of the provider has returned (or raised) and its record stands.
Done == pc = "idle" /\ op \in {"findContribution", "canHandle"}

\* What the handlers answered during the query.
Positive(a) == a.kind = "number" /\ a.n > 0
NonPositive(a) == a.kind = "number" /\ a.n <= 0
NonNumeric(a) == a.kind \in {"NaN", "undefined"}
Answered(h) == {prioritizeable[i].priority :
                   i \in {j \in 1..Len(prioritizeable) : prioritizeable[j].value = h}}
ScoreOf(h) == (CHOOSE a \in Answered(h) : TRUE).n
Count(s, h) == Cardinality({i \in 1..Len(s) : s[i] = h})
Range(s) == {s[i] : i \in 1..Len(s)}

\* s is t with some elements left out.
RECURSIVE IsSubseq(_, _)
IsSubseq(s, t) ==
    IF s = <<>> THEN TRUE
    ELSE IF t = <<>> THEN FALSE
    ELSE IF Head(s) = Head(t) THEN IsSubseq(Tail(s), Tail(t))
    ELSE IsSubseq(s, Tail(t))

\* The ranking read off the answers: for each score from the largest down
\* to 1, the handlers that answered it, in registration order.
RECURSIVE Ranked(_, _)
Ranked(ps, n) ==
    IF n < 1 THEN <<>>
    ELSE Values(SelectSeq(ps, LAMBDA p : p.priority = Num(n))) \o Ranked(ps, n - 1)

\* C1: the list findContribution returns never contains a handler whose
\* canHandle answered a value <= 0 during that query.
C1_NoNonApplicable ==
    Done => \A k \in 1..Len(found) :
                \A a \in Answered(found[k]) : ~NonPositive(a)

C1_Witness ==
    /\ Done /\ op = "findContribution"
    /\ found # <<>>
    /\ \E i \in 1..Len(prioritizeable) : NonPositive(prioritizeable[i].priority)

\* C2: the list is ordered by score descending, and handlers with equal
\* scores keep their registration order; X and Y with the same positive
\* score and Z with 0, registered X, Y, Z, give <<X, Y>>.
C2_SortedStable ==
    Done =>
        /\ \A j, k \in 1..Len(found) :
              j < k => ScoreOf(found[j]) >= ScoreOf(found[k])
        /\ \A n \in 1..MaxScore :
              IsSubseq(SelectSeq(found, LAMBDA h : ScoreOf(h) = n), contributions)
        /\ (prioritizeable = <<Pair("X", Num(MaxScore)), Pair("Y", Num(MaxScore)),
                               Pair("Z", Num(0))>>)
              => found = <<"X", "Y">>

C2_Witness ==
    /\ Done /\ op = "findContribution"
    /\ prioritizeable = <<Pair("X", Num(MaxScore)), Pair("Y", Num(MaxScore)),
                          Pair("Z", Num(0))>>
    /\ found = <<"X", "Y">>

\* C3: when exactly one registered handler's canHandle raises, the query
\* still returns, and returns the ranking of the remaining handlers with a
\* positive score; X raising and Y scoring gives <<Y>>.
ExactlyOneThrows ==
    Cardinality({h \in Range(contributions) : Throws \in Answered(h)}) = 1

AllNonPositive ==
    \A i \in 1..Len(prioritizeable) : NonPositive(prioritizeable[i].priority)

C4_CanHandleIff ==
    (pc = "idle" /\ op = "canHandle") =>
        /\ ~threw
        /\ can <=> (found # <<>>)
        /\ can <=> (\E i \in 1..Len(prioritizeable) :
                        Positive(prioritizeable[i].priority))
        /\ AllNonPositive => (found = <<>> /\ ~can)

C4_Witness ==
    /\ pc = "idle" /\ op = "canHandle"
    /\ Len(contributions) = MaxHandlers
    /\ AllNonPositive
    /\ found = <<>> /\ ~can /\ ~threw

\* C5: RenderContentParams.is is false for undefined, false for an object
\* without the key content, false for an object without the key originUri,
\* and true exactly for an object in which both keys are present.
C5_IsPresence ==
    op = "is" =>
        /\ (params = UndefinedParams => ~valid)
        /\ ("content" \notin params.keys => ~valid)
        /\ ("originUri" \notin params.keys => ~valid)
        /\ valid <=> (params.kind = "object" /\ Keys \subseteq params.keys)

C5_Witness ==
    /\ op = "is"
    /\ params.kind = "object" /\ params.keys = {"content"}
    /\ ~valid

\* C6: RenderContentParams.is rejects a parameter object in which content
\* or originUri is absent or holds undefined.
C6_RejectsUndefinedFields ==
    (op = "is" /\ params.kind = "object"
        /\ \E k \in Keys : k \notin params.keys \/ k \in params.undef)
    => ~valid

\* C7: a handler whose canHandle answers a non-numeric value (undefined,
\* NaN) is left out, the other handlers with a positive score are returned
\* in rank order, and the query is not aborted.
C7_NonNumericExcluded ==
    (Done /\ \E i \in 1..Len(prioritizeable) : NonNumeric(prioritizeable[i].priority))
    =>
        /\ ~threw
        /\ \A h \in Range(found) : \A a \in Answered(h) : ~NonNumeric(a)
        /\ found = Ranked(SelectSeq(prioritizeable,
                                    LAMBDA p : ~NonNumeric(p.priority)), MaxScore)

C7_Witness ==
    /\ Done /\ op = "findContribution"
    /\ prioritizeable = <<Pair("X", NaN), Pair("Y", Num(1)), Pair("Z", Num(MaxScore))>>
    /\ found = <<"Z", "Y">>

\* C8: a query has no side effect: no step of findContribution or of the
\* provider's canHandle changes the contribution sequence, and none invokes
\* renderContent on a handler.
C8_QueriesPure ==
    [][(pc = "scoring" \/ pc' = "scoring")
          => (contributions' = contributions /\ rendered' = rendered)]_vars

C8_Witness ==
    /\ Done
    /\ Len(contributions) = MaxHandlers
    /\ found # <<>> /\ found # contributions
    /\ rendered # None

\* C9: scores are not cached: a query calls canHandle once on every
\* registered handler, in registration order, and the list returned is the
\* ranking of the answers of that very query, whatever an earlier query
\* was answered.
C9_NoCaching ==
    Done =>
        /\ Values(prioritizeable) = contributions
        /\ found = Ranked(prioritizeable, MaxScore)

\* The handler rendered after an earlier query no longer applies.
C9_Witness ==
    /\ Done /\ op = "findContribution"
    /\ rendered # None
    /\ rendered \in Range(contributions)
    /\ found # <<>>
    /\ rendered \notin Range(found)

\* C10: when no handler raises, the list holds every registered handler
\* with a score > 0 as many times as it is registered, and nothing else.
C10_Complete ==
    (Done /\ \A i \in 1..Len(prioritizeable) : prioritizeable[i].priority # Throws)
    => \A h \in Handlers :
          Count(found, h) =
              IF \E a \in Answered(h) : Positive(a) THEN Count(contributions, h) ELSE 0

C10_Witness ==
    /\ Done /\ op = "findContribution"
    /\ contributions = <<"X", "Y", "X">>
    /\ found = <<"Y", "X", "X">>
====
